---- MODULE Spec2Model ----
(***************************************************************************)
(* BaseAgent (atomic_agents/agents/base_agent.py): one agent instance, its *)
(* active memory, its construction-time memory snapshot, the context       *)
(* provider registry of its system prompt generator, and the completion    *)
(* client it calls.  Calls are sequential: each action is one whole call.  *)
(***************************************************************************)
EXTENDS Integers, Sequences, FiniteSets, TLC

\* ------------------------------------------------------------------ bounds

\* Longest active-memory history explored.
MaxHistory == 3

\* ------------------------------------------------------------ Python values

None == [type |-> "NoneType"]

\* Variant: truth taken from the message text, as `if user_input.chat_message:`.
Truthy_nonempty(x) ==
    /\ x # None
    /\ ("chat_message" \in DOMAIN x => x.chat_message # "")

\* `if x:` / `x or y` on None or on an instance that defines neither
\* __bool__ nor __len__ (pydantic models, AgentMemory, SystemPromptGenerator).
Truthy(x) == x # None

SchemaType(name) == [type |-> "type", name |-> name]

BaseAgentInputSchema == SchemaType("BaseAgentInputSchema")

BaseAgentOutputSchema == SchemaType("BaseAgentOutputSchema")

CustomOutputSchema == SchemaType("CustomOutputSchema")

\* An instance of a BaseAgentIO schema with its one field.
Instance(schema, text) == [type |-> schema.name, chat_message |-> text]

\* BaseAgentIO.__str__: the JSON dump of the declared fields.
str(x) == "{\"chat_message\":\"" \o x.chat_message \o "\"}"

Returned(v) == [status |-> "returned", value |-> v]

Raised(e) == [status |-> "raised", error |-> e]

\* ------------------------------------------------- dict (insertion ordered)

\* A dict is the sequence of its <<key, value>> items in insertion order.
dict_contains(d, k) == \E i \in 1..Len(d) : d[i][1] = k

dict_getitem(d, k) == d[CHOOSE i \in 1..Len(d) : d[i][1] = k][2]

dict_setitem(d, k, v) ==
    IF dict_contains(d, k)
    THEN [i \in 1..Len(d) |-> IF d[i][1] = k THEN <<k, v>> ELSE d[i]]
    ELSE Append(d, <<k, v>>)

dict_delitem(d, k) == SelectSeq(d, LAMBDA item : item[1] # k)

\* ------------------------------------------------ collaborators (interface)

\* Object identities of AgentMemory instances.  At most two are referenced
\* by the agent at any time and a copy needs a third.
ObjIds == {1, 2, 3}

Message(role, content) == [role |-> role, content |-> content]

\* AgentMemory.get_history(): the ordered log of the object.
get_history(heap, ref) == heap[ref]

\* AgentMemory.add_message(role, content): append to the object's log.
add_message(heap, ref, role, content) ==
    [heap EXCEPT ![ref] = Append(@, Message(role, content))]

\* AgentMemory.copy(): a new object with an equal log.
copy(heap, ref) ==
    LET new == CHOOSE i \in ObjIds \ DOMAIN heap :
                   \A j \in ObjIds \ DOMAIN heap : i <= j
    IN  [heap |-> (new :> heap[ref]) @@ heap, ref |-> new]

\* Objects no attribute of the agent refers to any more are collected.
Collect(self) ==
    [self EXCEPT !.heap = [i \in {self.memory, self.initial_memory} |-> self.heap[i]]]

RECURSIVE ProviderInfo(_)
ProviderInfo(d) ==
    IF d = <<>> THEN ""
    ELSE "[" \o Head(d)[1] \o ":" \o Head(d)[2] \o "]" \o ProviderInfo(Tail(d))

\* SystemPromptGenerator.generate_prompt(): the prompt text for the current
\* registry of context providers.
generate_prompt(context_providers) == "PROMPT" \o ProviderInfo(context_providers)

\* client.chat.completions.create(model, messages, response_model), the n-th
\* invocation within one agent call: the environment's scripted outcome.
create(client, n, response_model) ==
    LET outcome == IF n = 1 THEN client.first ELSE client.again
    IN  IF outcome.ok
        THEN Returned(Instance(response_model, outcome.chat_message))
        ELSE Raised(outcome.error)

\* ----------------------------------------------------------------- inputs

UserTexts == {"ping", ""}

UserInputs == {Instance(BaseAgentInputSchema, t) : t \in UserTexts}

Errors == {"ValidationError", "APIConnectionError"}

Outcomes == {[ok |-> TRUE, chat_message |-> "pong"]}
            \cup {[ok |-> FALSE, error |-> e] : e \in Errors}

\* What the client does on its first invocation within a call of the agent,
\* and on any further one.
ClientScripts == [first : Outcomes, again : Outcomes]

ProviderNames == {"a", "b"}

Providers == {"p1", "p2"}

AgentMemory(history) == [type |-> "AgentMemory", history |-> history]

SystemPromptGenerator(context_providers) ==
    [type |-> "SystemPromptGenerator", context_providers |-> context_providers]

InitialHistories ==
    { <<>>,
      <<Message("user", str(Instance(BaseAgentInputSchema, "ping"))),
        Message("assistant", str(Instance(BaseAgentOutputSchema, "pong")))>> }

Configs ==
    [ model : {"gpt-3.5-turbo"},
      memory : {None} \cup {AgentMemory(h) : h \in InitialHistories},
      system_prompt_generator :
          {None, SystemPromptGenerator(<< <<"a", "p1">> >>)},
      output_schema : {None} ]

\* ------------------------------------------------------------------ state

VARIABLES
    heap,               \* AgentMemory objects: identity -> history
    memory,             \* self.memory (an object identity)
    initial_memory,     \* self.initial_memory (an object identity)
    current_user_input, \* self.current_user_input
    output_schema,      \* self.output_schema
    model,              \* self.model
    context_providers,  \* system_prompt_generator.system_prompt_info.context_providers
    H0,                 \* the history config.memory held at construction
    last,               \* the last call: operation, arguments, result, client calls
    pre_history,        \* active history when the last call began
    pre_providers,      \* registry when the last call began
    prev                \* the kind of the call before the last

vars == <<heap, memory, initial_memory, current_user_input, output_schema, model,
          context_providers, H0, last, pre_history, pre_providers, prev>>

Self ==
    [ heap |-> heap, memory |-> memory, initial_memory |-> initial_memory,
      current_user_input |-> current_user_input, output_schema |-> output_schema,
      model |-> model, context_providers |-> context_providers ]

History == get_history(heap, memory)

\* ------------------------------------------------------------- BaseAgent

\* BaseAgent.__init__(config)
BaseAgent(config) ==
    LET mem == IF Truthy(config.memory) THEN config.memory ELSE AgentMemory(<<>>)
        spg == IF Truthy(config.system_prompt_generator)
               THEN config.system_prompt_generator
               ELSE SystemPromptGenerator(<<>>)
        h1  == (1 :> mem.history)
        c   == copy(h1, 1)
    IN  [ heap |-> c.heap, memory |-> 1, initial_memory |-> c.ref,
          current_user_input |-> None,
          output_schema |-> IF Truthy(config.output_schema)
                            THEN config.output_schema ELSE BaseAgentOutputSchema,
          model |-> config.model,
          context_providers |-> spg.context_providers ]

\* Variant: the snapshot itself becomes the active memory (no copy).
reset_memory_no_copy(self) ==
    [ self |-> Collect([self EXCEPT !.memory = self.initial_memory]),
      result |-> Returned(None), calls |-> <<>> ]

\* Variant: the active memory becomes a new empty AgentMemory().
reset_memory_fresh(self) ==
    LET new == CHOOSE i \in ObjIds \ DOMAIN self.heap :
                   \A j \in ObjIds \ DOMAIN self.heap : i <= j
    IN  [ self |-> Collect([self EXCEPT !.heap = (new :> <<>>) @@ self.heap,
                                        !.memory = new]),
          result |-> Returned(None), calls |-> <<>> ]

\* BaseAgent.reset_memory()
reset_memory(self) ==
    LET c == copy(self.heap, self.initial_memory)
    IN  [ self |-> Collect([self EXCEPT !.heap = c.heap, !.memory = c.ref]),
          result |-> Returned(None), calls |-> <<>> ]

\* Variant: a failed completion call is tried once more.
get_response_retry(self, response_model, client) ==
    LET rm == IF response_model = None THEN self.output_schema ELSE response_model
        messages == <<Message("system", generate_prompt(self.context_providers))>>
                    \o get_history(self.heap, self.memory)
        call(n) == [model |-> self.model, messages |-> messages,
                    response_model |-> rm, outcome |-> create(client, n, rm)]
    IN  IF create(client, 1, rm).status = "raised"
        THEN [self |-> self, result |-> create(client, 2, rm), calls |-> <<call(1), call(2)>>]
        ELSE [self |-> self, result |-> create(client, 1, rm), calls |-> <<call(1)>>]

\* Variant: only the newest history entry follows the system message.
get_response_window(self, response_model, client) ==
    LET rm == IF response_model = None THEN self.output_schema ELSE response_model
        h  == get_history(self.heap, self.memory)
        messages == <<Message("system", generate_prompt(self.context_providers))>>
                    \o (IF h = <<>> THEN <<>> ELSE <<h[Len(h)]>>)
        response == create(client, 1, rm)
    IN  [ self |-> self,
          result |-> response,
          calls |-> << [model |-> self.model, messages |-> messages,
                        response_model |-> rm, outcome |-> response] >> ]

\* BaseAgent.get_response(response_model)
get_response(self, response_model, client) ==
    LET rm == IF response_model = None THEN self.output_schema ELSE response_model
        messages == <<Message("system", generate_prompt(self.context_providers))>>
                    \o get_history(self.heap, self.memory)
        response == create(client, 1, rm)
    IN  [ self |-> self,
          result |-> response,
          calls |-> << [model |-> self.model, messages |-> messages,
                        response_model |-> rm, outcome |-> response] >> ]

\* Variant: the completion call is made before the user message is stored.
run_response_first(self, user_input, client) ==
    LET g  == get_response(self, self.output_schema, client)
        s1 == IF Truthy(user_input)
              THEN [self EXCEPT
                      !.current_user_input = user_input,
                      !.heap = add_message(self.heap, self.memory, "user", str(user_input))]
              ELSE self
    IN  IF g.result.status = "raised"
        THEN g
        ELSE [g EXCEPT !.self =
                 [s1 EXCEPT !.heap =
                     add_message(s1.heap, s1.memory, "assistant", str(g.result.value))]]

\* Variant: a failed completion call resets the memory before the failure
\* reaches the caller.
run_reset_on_failure(self, user_input, client) ==
    LET s1 == IF Truthy(user_input)
              THEN [self EXCEPT
                      !.current_user_input = user_input,
                      !.heap = add_message(self.heap, self.memory, "user", str(user_input))]
              ELSE self
        g  == get_response(s1, s1.output_schema, client)
    IN  IF g.result.status = "raised"
        THEN [g EXCEPT !.self = reset_memory(g.self).self]
        ELSE [g EXCEPT !.self.heap =
                 add_message(g.self.heap, g.self.memory, "assistant", str(g.result.value))]

\* Variant: a failed completion call takes the turn's user message back out
\* of the memory.
run_rollback(self, user_input, client) ==
    LET s1 == IF Truthy(user_input)
              THEN [self EXCEPT
                      !.current_user_input = user_input,
                      !.heap = add_message(self.heap, self.memory, "user", str(user_input))]
              ELSE self
        g  == get_response(s1, s1.output_schema, client)
    IN  IF g.result.status = "raised"
        THEN [g EXCEPT !.self.heap = self.heap]
        ELSE [g EXCEPT !.self.heap =
                 add_message(g.self.heap, g.self.memory, "assistant", str(g.result.value))]

\* BaseAgent.run(user_input)
run(self, user_input, client) ==
    LET s1 == IF Truthy(user_input)
              THEN [self EXCEPT
                      !.current_user_input = user_input,
                      !.heap = add_message(self.heap, self.memory, "user", str(user_input))]
              ELSE self
        g  == get_response(s1, s1.output_schema, client)
    IN  IF g.result.status = "raised"
        THEN g
        ELSE [g EXCEPT !.self.heap =
                 add_message(g.self.heap, g.self.memory, "assistant", str(g.result.value))]

\* BaseAgent.get_context_provider(provider_name)
get_context_provider(self, provider_name) ==
    [ self |-> self, calls |-> <<>>,
      result |-> IF ~dict_contains(self.context_providers, provider_name)
                 THEN Raised("KeyError")
                 ELSE Returned(dict_getitem(self.context_providers, provider_name)) ]

\* Variant: an existing entry is kept, as with dict.setdefault.
register_setdefault(self, provider_name, provider) ==
    [ self |-> IF dict_contains(self.context_providers, provider_name)
               THEN self
               ELSE [self EXCEPT !.context_providers = Append(@, <<provider_name, provider>>)],
      calls |-> <<>>, result |-> Returned(None) ]

\* BaseAgent.register_context_provider(provider_name, provider)
register_context_provider(self, provider_name, provider) ==
    [ self |-> [self EXCEPT !.context_providers = dict_setitem(@, provider_name, provider)],
      calls |-> <<>>, result |-> Returned(None) ]

\* Variant: a missing name is ignored, as with dict.pop(name, None).
unregister_silent(self, provider_name) ==
    [ self |-> [self EXCEPT !.context_providers = dict_delitem(@, provider_name)],
      calls |-> <<>>, result |-> Returned(None) ]

\* BaseAgent.unregister_context_provider(provider_name)
unregister_context_provider(self, provider_name) ==
    IF dict_contains(self.context_providers, provider_name)
    THEN [ self |-> [self EXCEPT !.context_providers = dict_delitem(@, provider_name)],
           calls |-> <<>>, result |-> Returned(None) ]
    ELSE [ self |-> self, calls |-> <<>>, result |-> Raised("KeyError") ]

\* ---------------------------------------------------------------- actions

NoArgs == [user_input |-> None, response_model |-> None,
           provider_name |-> "", provider |-> ""]

\* What the next call's record keeps of a call: whether it was a reset_memory,
\* a run with input whose completion call failed, or anything else.
Kind(call) ==
    IF call.op = "reset_memory" THEN "reset_memory"
    ELSE IF call.op = "run" /\ call.args.user_input # None
            /\ call.result.status = "raised" THEN "failed_run_with_input"
    ELSE "other"

\* The agent's state after a call, and the record of the call.
Commit(r, op, args) ==
    /\ heap' = r.self.heap
    /\ memory' = r.self.memory
    /\ initial_memory' = r.self.initial_memory
    /\ current_user_input' = r.self.current_user_input
    /\ output_schema' = r.self.output_schema
    /\ model' = r.self.model
    /\ context_providers' = r.self.context_providers
    /\ last' = [op |-> op, args |-> args, result |-> r.result, calls |-> r.calls]
    /\ pre_history' = History
    /\ pre_providers' = context_providers
    /\ prev' = Kind(last)
    /\ UNCHANGED H0

Init ==
    \E config \in Configs :
        LET a == BaseAgent(config)
        IN  /\ heap = a.heap
            /\ memory = a.memory
            /\ initial_memory = a.initial_memory
            /\ current_user_input = a.current_user_input
            /\ output_schema = a.output_schema
            /\ model = a.model
            /\ context_providers = a.context_providers
            /\ H0 = IF Truthy(config.memory) THEN config.memory.history ELSE <<>>
            /\ last = [op |-> "__init__", args |-> NoArgs,
                       result |-> Returned(None), calls |-> <<>>]
            /\ pre_history = <<>>
            /\ pre_providers = <<>>
            /\ prev = "other"

ResetMemory == Commit(reset_memory(Self), "reset_memory", NoArgs)

GetResponse ==
    \E response_model \in {None, CustomOutputSchema} :
    \E client \in ClientScripts :
        Commit(get_response(Self, response_model, client), "get_response",
               [NoArgs EXCEPT !.response_model = response_model])

Run ==
    \E user_input \in UserInputs \cup {None} :
    \E client \in ClientScripts :
        LET r == run(Self, user_input, client)
        IN  /\ Len(get_history(r.self.heap, r.self.memory)) <= MaxHistory
            /\ Commit(r, "run", [NoArgs EXCEPT !.user_input = user_input])

GetContextProvider ==
    \E provider_name \in ProviderNames :
        Commit(get_context_provider(Self, provider_name), "get_context_provider",
               [NoArgs EXCEPT !.provider_name = provider_name])

RegisterContextProvider ==
    \E provider_name \in ProviderNames, provider \in Providers :
        Commit(register_context_provider(Self, provider_name, provider),
               "register_context_provider",
               [NoArgs EXCEPT !.provider_name = provider_name, !.provider = provider])

UnregisterContextProvider ==
    \E provider_name \in ProviderNames :
        Commit(unregister_context_provider(Self, provider_name),
               "unregister_context_provider",
               [NoArgs EXCEPT !.provider_name = provider_name])

Next ==
    \/ ResetMemory
    \/ GetResponse
    \/ Run
    \/ GetContextProvider
    \/ RegisterContextProvider
    \/ UnregisterContextProvider

Spec == Init /\ [][Next]_vars

\* ------------------------------------------------------------- properties

IsPrefix(s, t) == Len(s) <= Len(t) /\ SubSeq(t, 1, Len(s)) = s

Input == last.args.user_input

UserMessage == Message("user", str(Input))

SystemMessage == Message("system", generate_prompt(context_providers))

RunWithInput == last.op = "run" /\ Input # None

RunWithoutInput == last.op = "run" /\ Input = None

Succeeded == last.result.status = "returned"

Failed == last.result.status = "raised"

Name == last.args.provider_name

\* C1 -- snapshot isolation: after any sequence of calls, initial_memory's
\* history is still the history captured at construction, and the state a
\* reset_memory call leaves has that history as the active one.
C1_SnapshotIsolation ==
    /\ get_history(heap, initial_memory) = H0
    /\ last.op = "reset_memory" => History = H0

\* A reset_memory that found a history other than the snapshot's, with a
\* non-empty snapshot.
C1_Witness ==
    /\ last.op = "reset_memory"
    /\ H0 # <<>>
    /\ pre_history # H0
    /\ History = H0

\* C2 -- turn ordering: in a run call with non-null input the one completion
\* call receives the system message, the history from before the call and
\* this turn's user message as its last entry (nothing after it); on success
\* the memory holds the user message directly before the assistant message
\* of the turn.
C2_TurnOrdering ==
    RunWithInput =>
        /\ Len(last.calls) >= 1
        /\ Tail(last.calls[1].messages) = pre_history \o <<UserMessage>>
        /\ Succeeded =>
              History = pre_history
                        \o <<UserMessage, Message("assistant", str(last.result.value))>>

\* A successful run with input on a non-empty history.
C2_Witness ==
    /\ RunWithInput
    /\ Succeeded
    /\ pre_history # <<>>

\* C3 as stated -- every run call with input grows the history by the user
\* message and the assistant message, every run call without input by one
\* assistant message.
C3_Original ==
    /\ RunWithInput =>
          /\ Len(History) = Len(pre_history) + 2
          /\ SubSeq(History, 1, Len(pre_history)) = pre_history
          /\ History[Len(pre_history) + 1].role = "user"
          /\ History[Len(pre_history) + 2].role = "assistant"
    /\ RunWithoutInput =>
          /\ Len(History) = Len(pre_history) + 1
          /\ SubSeq(History, 1, Len(pre_history)) = pre_history
          /\ History[Len(pre_history) + 1].role = "assistant"

\* C3 amended -- a run call that returns appends the user message (when input
\* is given) and then one assistant message; a run call whose completion
\* call fails appends the user message alone (when input is given) and
\* nothing otherwise.
C3_PerTurnAppend ==
    /\ (RunWithInput /\ Succeeded) =>
          History = pre_history
                    \o <<UserMessage, Message("assistant", str(last.result.value))>>
    /\ (RunWithoutInput /\ Succeeded) =>
          History = Append(pre_history, Message("assistant", str(last.result.value)))
    /\ (RunWithInput /\ Failed) => History = Append(pre_history, UserMessage)
    /\ (RunWithoutInput /\ Failed) => History = pre_history

\* A successful run without input: one assistant message, no user message.
C3_Witness ==
    /\ RunWithoutInput
    /\ Succeeded
    /\ Len(History) = Len(pre_history) + 1
    /\ History[Len(History)].role = "assistant"

\* C4 -- append-only memory: after any call other than reset_memory, the
\* history from before the call is a prefix of the history after it.
C4_AppendOnly ==
    last.op \in {"run", "get_response", "get_context_provider",
                 "register_context_provider", "unregister_context_provider"}
        => IsPrefix(pre_history, History)

\* A run that found a non-empty history and extended it.
C4_Witness ==
    /\ last.op = "run"
    /\ pre_history # <<>>
    /\ Len(History) > Len(pre_history)
    /\ IsPrefix(pre_history, History)

\* C5 -- lookup failure: get_context_provider and unregister_context_provider
\* with a name that is not in the registry fail with KeyError and leave the
\* registry as it was.
C5_LookupFailure ==
    (/\ last.op \in {"get_context_provider", "unregister_context_provider"}
     /\ ~dict_contains(pre_providers, Name))
        => /\ last.result = Raised("KeyError")
           /\ context_providers = pre_providers

\* An unregister of a name that is absent from a non-empty registry.
C5_Witness ==
    /\ last.op = "unregister_context_provider"
    /\ pre_providers # <<>>
    /\ ~dict_contains(pre_providers, Name)
    /\ Failed

\* C6 -- registry overwrite: register_context_provider returns normally; a
\* lookup of the name then returns the provider just given, the registry
\* holds one entry for the name, and the entries under other names are as
\* before.
C6_RegistryOverwrite ==
    last.op = "register_context_provider" =>
        /\ last.result = Returned(None)
        /\ get_context_provider(Self, Name).result = Returned(last.args.provider)
        /\ Cardinality({i \in 1..Len(context_providers) :
                            context_providers[i][1] = Name}) = 1
        /\ \A n \in ProviderNames \ {Name} :
              /\ dict_contains(context_providers, n) <=> dict_contains(pre_providers, n)
              /\ dict_contains(pre_providers, n) =>
                    dict_getitem(context_providers, n) = dict_getitem(pre_providers, n)

\* A register over an existing entry that held another provider, with a
\* second name in the registry.
C6_Witness ==
    /\ last.op = "register_context_provider"
    /\ Len(pre_providers) = 2
    /\ dict_contains(pre_providers, Name)
    /\ dict_getitem(pre_providers, Name) # last.args.provider

\* C7 -- reset_memory is idempotent: a reset_memory directly after a
\* reset_memory leaves the history the first one left, and from every
\* reachable state one reset and two resets both leave the history captured
\* at construction.
C7_ResetIdempotent ==
    LET once  == reset_memory(Self).self
        twice == reset_memory(once).self
    IN  /\ (last.op = "reset_memory" /\ prev = "reset_memory") => History = pre_history
        /\ get_history(once.heap, once.memory) = H0
        /\ get_history(twice.heap, twice.memory) = get_history(once.heap, once.memory)

\* Two reset_memory calls in a row on an agent built with a non-empty memory.
C7_Witness ==
    /\ last.op = "reset_memory"
    /\ prev = "reset_memory"
    /\ H0 # <<>>
    /\ History = H0

\* C8 -- no catch, no retry: a run or get_response call invokes the completion
\* client once, and what the call gives its caller is what that invocation
\* gave: its failure when it failed.
C8_NoCatchNoRetry ==
    last.op \in {"run", "get_response"} =>
        /\ Len(last.calls) = 1
        /\ last.result = last.calls[1].outcome
        /\ last.calls[1].outcome.status = "raised" => Failed

\* A run whose completion call failed.
C8_Witness ==
    /\ last.op = "run"
    /\ Len(last.calls) = 1
    /\ last.calls[1].outcome.status = "raised"
    /\ Failed

\* C9 -- message assembly: get_response hands the client the system message
\* built from the prompt generator's output followed by the whole history in
\* order, and leaves the history as it was.
C9_MessageAssembly ==
    last.op = "get_response" =>
        /\ Len(last.calls) >= 1
        /\ last.calls[1].messages = <<SystemMessage>> \o pre_history
        /\ Len(last.calls[1].messages) = Len(pre_history) + 1
        /\ History = pre_history

\* A get_response on a history of two or more entries with a provider
\* registered.
C9_Witness ==
    /\ last.op = "get_response"
    /\ Len(pre_history) >= 2
    /\ context_providers # <<>>
    /\ Len(last.calls[1].messages) = Len(pre_history) + 1

\* C10 -- a failed turn is not rolled back: after a run with input whose
\* completion call failed, the memory is the earlier history plus the user
\* message and current_user_input is the input; a successful run with input
\* right after such a call leaves user, user, assistant at the end.
C10_FailedTurnKept ==
    /\ (RunWithInput /\ Failed) =>
          /\ History = Append(pre_history, UserMessage)
          /\ current_user_input = Input
    /\ (RunWithInput /\ Succeeded /\ prev = "failed_run_with_input") =>
          LET n == Len(History)
          IN  /\ n >= 3
              /\ History[n - 2].role = "user"
              /\ History[n - 1].role = "user"
              /\ History[n].role = "assistant"

\* A successful run with input directly after a failed run with input.
C10_Witness ==
    /\ RunWithInput
    /\ Succeeded
    /\ prev = "failed_run_with_input"
    /\ Len(History) = Len(pre_history) + 2
    /\ pre_history[Len(pre_history)].role = "user"

====
